---------------------------- MODULE Spec2Model ----------------------------
(***************************************************************************)
(* Model of the query service of src/Server: nlp_module.process_query,     *)
(* the storage helpers of database.py and the request handler              *)
(* app.process_input.                                                      *)
(*                                                                         *)
(* Text.  TLC strings are opaque and ASCII only, so a Python/SQL string    *)
(* whose characters matter (a keyword, a subject, a catalogue field, a     *)
(* LIKE pattern) is a sequence of characters, each character being the     *)
(* Latin transliteration of one Cyrillic letter ("eh" is the letter of     *)
(* "ekzamen", "q" the soft sign, "ya", "ch", "sh", "j", "y", "h", "c" the  *)
(* usual ones); the upper-case letter is the same name in upper case.      *)
(* Strings that the code only stores and compares as a whole (advisory     *)
(* texts, the faculty constant, titles) are TLC strings, transliterated.   *)
(***************************************************************************)
EXTENDS Integers, Sequences, FiniteSets, TLC

VARIABLES
    \* ---- storage (PostgreSQL) ----
    Users,            \* committed rows of table Users
    users_id_seq,     \* value of sequence public.users_id_seq
    Queries,          \* committed rows of table Queries
    Responses,        \* committed rows of table Responses
    Recommendations,  \* rows of table Recommendations
    Literature,       \* rows of table Literature, in storage order
    tx,               \* per connection: Users rows inserted, not yet committed
    \* ---- one request handler per worker thread (app.process_input) ----
    pc,               \* position of each handler
    req,              \* the request's JSON body: user_id, input_text
    loc,              \* the handler's local variables
    nlpConn,          \* the connection opened by process_query
    appConn,          \* the connection opened by process_input
    failed,           \* storage operations the request attempted that raised
    result,           \* the HTTP answer: status and body
    \* ---- direct calls of process_query ----
    keywords,         \* the keyword list handed to the pipeline
    out,              \* what process_query returned for it, once called
    \* ---- direct calls of ensure_user_exists on one connection ----
    calls             \* log of the calls made so far

vars == <<Users, users_id_seq, Queries, Responses, Recommendations, Literature,
          tx, pc, req, loc, nlpConn, appConn, failed, result, keywords, out,
          calls>>

\* Python's None where a str is expected.
None == "None"

\* Python's None where a character sequence is expected (the subject): no
\* word of the vocabulary is empty, so the empty sequence is free to stand
\* for it, and it is falsy as None is.
NoSubject == <<>>

Range(s) == {s[i] : i \in 1..Len(s)}

-----------------------------------------------------------------------------
(* Characters and case.                                                    *)

LowerLetters ==
    <<"a", "b", "v", "g", "d", "e", "z", "i", "j", "k", "l", "m", "n", "o",
      "p", "r", "s", "t", "u", "f", "h", "c", "ch", "sh", "y", "q", "eh", "ya">>

UpperLetters ==
    <<"A", "B", "V", "G", "D", "E", "Z", "I", "J", "K", "L", "M", "N", "O",
      "P", "R", "S", "T", "U", "F", "H", "C", "CH", "SH", "Y", "Q", "EH", "YA">>

\* str.lower() / str.upper() on one character: letters change case, any other
\* character (the space, the LIKE wildcards) is left alone.
LowerChar(c) ==
    IF \E i \in 1..Len(UpperLetters) : UpperLetters[i] = c
    THEN LowerLetters[CHOOSE i \in 1..Len(UpperLetters) : UpperLetters[i] = c]
    ELSE c

UpperChar(c) ==
    IF \E i \in 1..Len(LowerLetters) : LowerLetters[i] = c
    THEN UpperLetters[CHOOSE i \in 1..Len(LowerLetters) : LowerLetters[i] = c]
    ELSE c

LowerStr(s) == [i \in 1..Len(s) |-> LowerChar(s[i])]

\* str.capitalize(): first character upper-cased, the rest lower-cased.
Capitalize(s) ==
    [i \in 1..Len(s) |-> IF i = 1 THEN UpperChar(s[i]) ELSE LowerChar(s[i])]

-----------------------------------------------------------------------------
(* The words of the fixed tables of process_query.                         *)

w_matematika       == <<"m", "a", "t", "e", "m", "a", "t", "i", "k", "a">>
w_informatika      == <<"i", "n", "f", "o", "r", "m", "a", "t", "i", "k", "a">>
w_fizika           == <<"f", "i", "z", "i", "k", "a">>
w_programmirovanie ==
    <<"p", "r", "o", "g", "r", "a", "m", "m", "i", "r", "o", "v", "a", "n", "i", "e">>
w_algebra          == <<"a", "l", "g", "e", "b", "r", "a">>
w_analiz           == <<"a", "n", "a", "l", "i", "z">>
w_diskretnaya      == <<"d", "i", "s", "k", "r", "e", "t", "n", "a", "ya">>

W_Matematika       == <<"M", "a", "t", "e", "m", "a", "t", "i", "k", "a">>
W_Informatika      == <<"I", "n", "f", "o", "r", "m", "a", "t", "i", "k", "a">>
W_Fizika           == <<"F", "i", "z", "i", "k", "a">>
W_Programmirovanie ==
    <<"P", "r", "o", "g", "r", "a", "m", "m", "i", "r", "o", "v", "a", "n", "i", "e">>
W_Algebra          == <<"A", "l", "g", "e", "b", "r", "a">>
W_Analiz           == <<"A", "n", "a", "l", "i", "z">>
W_Diskretnaya      == <<"D", "i", "s", "k", "r", "e", "t", "n", "a", "ya">>

W_LinejnayaAlgebra ==
    <<"L", "i", "n", "e", "j", "n", "a", "ya", " ", "a", "l", "g", "e", "b", "r", "a">>
W_MatematicheskijAnaliz ==
    <<"M", "a", "t", "e", "m", "a", "t", "i", "ch", "e", "s", "k", "i", "j", " ",
      "a", "n", "a", "l", "i", "z">>
W_BazyDannyh       == <<"B", "a", "z", "y", " ", "d", "a", "n", "n", "y", "h">>
W_DiskretnayaMatematika ==
    <<"D", "i", "s", "k", "r", "e", "t", "n", "a", "ya", " ",
      "m", "a", "t", "e", "m", "a", "t", "i", "k", "a">>

w_ekzamen          == <<"eh", "k", "z", "a", "m", "e", "n">>
w_domashnee_zadanie ==
    <<"d", "o", "m", "a", "sh", "n", "e", "e", " ", "z", "a", "d", "a", "n", "i", "e">>
w_raspisanie       == <<"r", "a", "s", "p", "i", "s", "a", "n", "i", "e">>
w_konsultaciya     == <<"k", "o", "n", "s", "u", "l", "q", "t", "a", "c", "i", "ya">>
w_materialy        == <<"m", "a", "t", "e", "r", "i", "a", "l", "y">>
w_praktika         == <<"p", "r", "a", "k", "t", "i", "k", "a">>
w_motivaciya       == <<"m", "o", "t", "i", "v", "a", "c", "i", "ya">>
w_proekt           == <<"p", "r", "o", "eh", "k", "t">>
w_literatura       == <<"l", "i", "t", "e", "r", "a", "t", "u", "r", "a">>
w_gruppa           == <<"g", "r", "u", "p", "p", "a">>

\* Lemmas outside both tables.
w_kniga            == <<"k", "n", "i", "g", "a">>
w_zadanie          == <<"z", "a", "d", "a", "n", "i", "e">>

\* nlp_module.py line 15: the subject vocabulary, a list.
subjects ==
    <<w_matematika, w_informatika, w_fizika, w_programmirovanie, w_algebra,
      w_analiz, w_diskretnaya>>

\* nlp_module.py lines 22-30: dict, as its (key, value) items in order.
subject_mapping ==
    << <<W_Matematika, <<W_LinejnayaAlgebra, W_MatematicheskijAnaliz, W_Algebra>> >>,
       <<W_Informatika, <<W_Informatika, W_Programmirovanie, W_BazyDannyh>> >>,
       <<W_Fizika, <<W_Fizika>> >>,
       <<W_Programmirovanie, <<W_Programmirovanie, W_Informatika>> >>,
       <<W_Algebra, <<W_LinejnayaAlgebra, W_Algebra>> >>,
       <<W_Analiz, <<W_MatematicheskijAnaliz>> >>,
       <<W_Diskretnaya, <<W_DiskretnayaMatematika>> >> >>

\* nlp_module.py lines 33-44: dict, as its (key, value) items in insertion
\* order, which is the order dict.items() iterates in.
recommendations ==
    << <<w_ekzamen, "Rekomenduetsya nachat podgotovku za 2 nedeli, izuchit materialy kursa i vypolnit prakticheskie zadaniya.">>,
       <<w_domashnee_zadanie, "Proverte zadaniya v sisteme, obratites k prepodavatelyu za razyasneniyami.">>,
       <<w_raspisanie, "Oznakomtes s aktualnym raspisaniem na portale universiteta ili obratites v dekanat.">>,
       <<w_konsultaciya, "Zapishites na konsultaciyu cherez sistemu ili svyazhites s prepodavatelem napryamuyu.">>,
       <<w_materialy, "Skachajte uchebnye materialy iz sistemy e-learning ili zaprosite ih u prepodavatelya.">>,
       <<w_praktika, "Dlya zakrepleniya materiala vypolnite prakticheskie zadaniya i proverte resheniya na platforme.">>,
       <<w_motivaciya, "Stavte nebolshie celi, delite zadachi na chasti i voznagrazhdajte sebya za uspehi!">>,
       <<w_proekt, "Sostavte plan raboty nad proektom, obsudite etapy s rukovoditelem i sledujte dedlajnam.">>,
       <<w_literatura, "Ispolzujte rekomendovannuyu literaturu iz uchebnogo plana ili obratites v biblioteku.">>,
       <<w_gruppa, "Obsudite zadanie s odnogruppnikami ili prisoedinites k uchebnoj gruppe dlya sovmestnoj podgotovki.">> >>

\* nlp_module.py line 53: the faculty every literature search is fixed to.
FACULTY == "Fiziko-matematicheskij, informacionnyj i tehnologicheskij"


-----------------------------------------------------------------------------
(* Table Literature.  Rows are written with the subject and keywords       *)
(* columns as character sequences, because the search matches inside them. *)

c_comma_space == <<",", " ">>

LitRow1 ==
    [id |-> 1, title |-> "Linejnaya algebra i geometriya", author |-> "Ivanov",
     subject |-> W_LinejnayaAlgebra, faculty |-> FACULTY,
     publication_year |-> 2019, url |-> "http://lib/1",
     keywords |-> w_algebra \o c_comma_space \o <<"m", "a", "t", "r", "i", "c", "a">>]

LitRow2 ==
    [id |-> 2, title |-> "Kurs fiziki", author |-> "Petrov",
     subject |-> W_Fizika, faculty |-> FACULTY,
     publication_year |-> 2015, url |-> "http://lib/2",
     keywords |-> <<"m", "e", "h", "a", "n", "i", "k", "a">>]

\* A record of another faculty that would match by subject and by keyword.
LitRow3 ==
    [id |-> 3, title |-> "Algebra dlya filologov", author |-> "Sidorov",
     subject |-> W_Algebra, faculty |-> "Filologicheskij",
     publication_year |-> 2020, url |-> "http://lib/3",
     keywords |-> w_algebra \o c_comma_space \o w_ekzamen]

\* Keywords stored with a capital letter: the search is case-insensitive.
LitRow4 ==
    [id |-> 4, title |-> "Matematicheskij analiz", author |-> "Fihtengolc",
     subject |-> W_MatematicheskijAnaliz, faculty |-> FACULTY,
     publication_year |-> 1970, url |-> "http://lib/4",
     keywords |-> Capitalize(w_ekzamen) \o c_comma_space \o <<"p", "r", "e", "d", "e", "l">>]

LitRow5 ==
    [id |-> 5, title |-> "Istoriya nauki", author |-> "Kuznecov",
     subject |-> <<"I", "s", "t", "o", "r", "i", "ya">>, faculty |-> FACULTY,
     publication_year |-> 2001, url |-> "http://lib/5",
     keywords |-> w_kniga]

LiteratureTables ==
    { <<LitRow1, LitRow2, LitRow3, LitRow4, LitRow5>>,
      <<LitRow3, LitRow5>> }

-----------------------------------------------------------------------------
(* nlp_module.process_query, after keyword extraction.                     *)

\* Lines 14-19: scan the keywords in order, stop at the first one that is in
\* the vocabulary.
RECURSIVE SubjectScan(_, _)
SubjectScan(kws, i) ==
    IF i > Len(kws) THEN NoSubject
    ELSE IF kws[i] \in Range(subjects) THEN Capitalize(kws[i])
    ELSE SubjectScan(kws, i + 1)

\* The scan without its "break": the last vocabulary word wins.
ClassifySubject_LastMatch(kws) ==
    LET found == {i \in 1..Len(kws) : kws[i] \in Range(subjects)}
    IN  IF found = {} THEN NoSubject
        ELSE Capitalize(kws[CHOOSE i \in found : \A j \in found : j <= i])

ClassifySubject(kws) == SubjectScan(kws, 1)

\* Lines 79-84: iterate the items of the recommendations dict, return the
\* value of the first key that is in the keyword list.
RECURSIVE RecommendationScan(_, _)
RecommendationScan(kws, i) ==
    IF i > Len(recommendations) THEN None
    ELSE IF recommendations[i][1] \in Range(kws) THEN recommendations[i][2]
    ELSE RecommendationScan(kws, i + 1)

\* The loops the other way round: the first keyword that is a key wins.
MatchRecommendation_KeywordOrder(kws) ==
    LET IsKey(w) == \E j \in 1..Len(recommendations) : recommendations[j][1] = w
        found == {i \in 1..Len(kws) : IsKey(kws[i])}
    IN  IF found = {} THEN None
        ELSE LET first == kws[CHOOSE i \in found : \A j \in found : i <= j]
             IN  recommendations[CHOOSE j \in 1..Len(recommendations) :
                                     recommendations[j][1] = first][2]

MatchRecommendation(kws) == RecommendationScan(kws, 1)

\* The search without its guard.
NeedsLookup_Always(kws, subject) == TRUE

\* Line 48: "if keywords or subject".
NeedsLookup(kws, subject) == kws # <<>> \/ subject # NoSubject

\* f'%{x}%'
Contains(x) == <<"%">> \o x \o <<"%">>

\* Lines 58-61: one condition and one parameter per keyword.
KeywordConditions(kws) ==
    [i \in 1..Len(kws) |-> [column |-> "keywords", param |-> Contains(kws[i])]]

InSubjectMapping(subject) ==
    \E i \in 1..Len(subject_mapping) : subject_mapping[i][1] = subject

RelatedSubjects(subject) ==
    subject_mapping[CHOOSE i \in 1..Len(subject_mapping) :
                        subject_mapping[i][1] = subject][2]

\* The subject itself as the only subject condition, without the mapping.
SubjectConditions_SubjectOnly(subject) ==
    IF subject # NoSubject
    THEN <<[column |-> "subject", param |-> Contains(subject)]>>
    ELSE <<>>

\* Lines 62-67: one condition and one parameter per related subject.
SubjectConditions(subject) ==
    IF subject # NoSubject /\ InSubjectMapping(subject)
    THEN LET related_subjects == RelatedSubjects(subject)
         IN  [i \in 1..Len(related_subjects) |->
                 [column |-> "subject", param |-> Contains(related_subjects[i])]]
    ELSE <<>>

\* Lines 52-69: the statement "... WHERE faculty = %s AND (c1 OR c2 ...)" as
\* the columns of its ILIKE conditions, and its parameter list.
BuildQuery(kws, subject) ==
    LET conditions == KeywordConditions(kws) \o SubjectConditions(subject)
    IN  [conditions |-> [i \in 1..Len(conditions) |-> conditions[i].column],
         params     |-> <<FACULTY>> \o
                        [i \in 1..Len(conditions) |-> conditions[i].param]]

\* SQL LIKE: "%" stands for any run of characters, "_" for any one character.
RECURSIVE Like(_, _)
Like(text, pattern) ==
    IF pattern = <<>> THEN text = <<>>
    ELSE IF Head(pattern) = "%"
         THEN Like(text, Tail(pattern))
              \/ (text # <<>> /\ Like(Tail(text), pattern))
    ELSE /\ text # <<>>
         /\ (Head(pattern) = "_" \/ Head(pattern) = Head(text))
         /\ Like(Tail(text), Tail(pattern))

\* SQL ILIKE: LIKE without regard to case.
ILike(text, pattern) == Like(LowerStr(text), LowerStr(pattern))

RowMatches(row, query) ==
    /\ row.faculty = query.params[1]
    /\ \E i \in 1..Len(query.conditions) :
           ILike(row[query.conditions[i]], query.params[i + 1])

\* The SELECT list of line 52: the row without its keywords column.
Selected(row) ==
    [id |-> row.id, title |-> row.title, author |-> row.author,
     subject |-> row.subject, faculty |-> row.faculty,
     publication_year |-> row.publication_year, url |-> row.url]

\* Lines 71-72: cur.execute(query, params); cur.fetchall().
RECURSIVE FetchLiterature(_, _)
FetchLiterature(table, query) ==
    IF table = <<>> THEN <<>>
    ELSE (IF RowMatches(Head(table), query) THEN <<Selected(Head(table))>> ELSE <<>>)
         \o FetchLiterature(Tail(table), query)

\* What can happen to the storage inside process_query.
NlpFaults == {"ok", "connect", "execute"}

\* Lines 12-84.  fault says which storage call raises, if any.  The result
\* carries, beside the returned triple, the statement that was executed, the
\* state the connection is left in, and whether a storage call raised.
ProcessQuery(kws, table, fault) ==
    LET subject  == ClassifySubject(kws)
        lookup   == NeedsLookup(kws, subject)
        query    == BuildQuery(kws, subject)
        \* Lines 49-76: try ... except Exception: print(...)
        executed == lookup /\ fault # "connect"
        fetched  == lookup /\ fault = "ok"
    IN  [response   |-> MatchRecommendation(kws),
         subject    |-> subject,
         literature |-> IF fetched THEN FetchLiterature(table, query) ELSE <<>>,
         query      |-> query,
         executed   |-> executed,
         \* conn.close() is the last statement of the try block: it is reached
         \* only when nothing before it raised.
         conn       |-> IF ~lookup \/ fault = "connect" THEN "none"
                        ELSE IF fault = "ok" THEN "closed" ELSE "open",
         raised     |-> lookup /\ fault # "ok"]

-----------------------------------------------------------------------------
(* Direct calls of process_query on arbitrary keyword lists.               *)

MaxKeywords == 3

KeywordUniverse ==
    {w_ekzamen, w_raspisanie, w_matematika, w_algebra, w_kniga, w_zadanie}

KeywordLists ==
    UNION {[1..n -> KeywordUniverse] : n \in 0..MaxKeywords}

-----------------------------------------------------------------------------
(* Storage.  Users.id is unique: it is the column sequence users_id_seq    *)
(* belongs to, and the column the rows of Queries refer to.                *)

\* database.py lines 40-43: the row ensure_user_exists inserts.
NewUserRow(user_id) ==
    [id |-> user_id, name |-> "User " \o ToString(user_id),
     email |-> "user" \o ToString(user_id) \o "@example.com", role |-> "student"]

\* The INSERT without the existence check before it.
UserFound_Never(committed, own, user_id) == FALSE

\* Line 38: SELECT 1 FROM Users WHERE id = %s, as seen by a connection whose
\* own uncommitted rows are own.
UserFound(committed, own, user_id) ==
    \E row \in committed \cup own : row.id = user_id

\* Lines 44-47: SELECT MAX(id) FROM Users; "or 0" for an empty table.
MaxUserId(rows) ==
    IF rows = {} THEN 0
    ELSE CHOOSE m \in {row.id : row \in rows} : \A row \in rows : row.id <= m

\* The unique constraint on Users.id, checked by the INSERT of lines 40-43
\* against the committed rows.
UniqueViolation(committed, user_id) ==
    \E row \in committed : row.id = user_id

\* Lines 35-60 run from start to end on one connection with nothing else
\* touching the storage: the tables afterwards, and whether the call raised.
EnsureUserExists(users, seq, user_id) ==
    IF ~UserFound(users, {}, user_id)
    THEN IF UniqueViolation(users, user_id)
         THEN \* lines 55-58: rollback and re-raise
              [Users |-> users, users_id_seq |-> seq, raised |-> TRUE]
         ELSE LET own == {NewUserRow(user_id)}
              IN  [Users |-> users \cup own,
                   users_id_seq |-> MaxUserId(users \cup own),
                   raised |-> FALSE]
    ELSE [Users |-> users, users_id_seq |-> seq, raised |-> FALSE]

\* Rows that exist before the service first sees a user.
OldUserRows ==
    { NewUserRow(1),
      [id |-> 2, name |-> "Anna", email |-> "anna@university", role |-> "teacher"],
      [id |-> 3, name |-> "Oleg", email |-> "oleg@university", role |-> "student"] }

\* database.py lines 65-70: INSERT INTO Queries ... RETURNING id; commit.
NewQueryRow(rows, user_id, query_text) ==
    [id |-> 1 + Cardinality(rows), user_id |-> user_id,
     query_text |-> query_text, status |-> "processed"]

\* database.py lines 80-84: INSERT INTO Responses ...; commit.
NewResponseRow(query_id, response_text) ==
    [query_id |-> query_id, response_text |-> response_text]

\* app.py line 33: LIMIT 10.
RecommendationsLimit == 10

\* app.py lines 32-36: SELECT recommendation_text, timestamp FROM
\* Recommendations WHERE user_id = %s ORDER BY timestamp DESC LIMIT 10.
RECURSIVE LatestFirst(_, _)
LatestFirst(rows, n) ==
    IF rows = {} \/ n = 0 THEN <<>>
    ELSE LET top == CHOOSE r \in rows : \A q \in rows : q.timestamp <= r.timestamp
         IN  <<[recommendation_text |-> top.recommendation_text,
                timestamp |-> top.timestamp]>>
             \o LatestFirst(rows \ {top}, n - 1)

FetchRecommendations(table, user_id) ==
    LatestFirst({r \in table : r.user_id = user_id}, RecommendationsLimit)

\* Contents of table Recommendations, which another part of the system
\* fills: eleven rows for user 1, one of them carrying the text of the first
\* advisory, and one row for user 2.
RecommendationTables ==
    { {},
      {[user_id |-> 1, timestamp |-> t,
        recommendation_text |-> IF t = 4 THEN recommendations[1][2]
                               ELSE "advice " \o ToString(t)]
          : t \in 1..(RecommendationsLimit + 1)}
        \cup {[user_id |-> 2, timestamp |-> 7, recommendation_text |-> "advice 7"]} }

-----------------------------------------------------------------------------
(* The request handler app.process_input, one per concurrent request.      *)

MaxRequests == 2

Requests == 1..MaxRequests

\* user_id values of the JSON body; 0 stands for a missing (falsy) one.
UserIds == {0, 1, 2}

\* input_text values of the JSON body; "" stands for a missing (falsy) one.
InputTexts == {"", "Privet!", "Kogda ekzamen po matematike?"}

\* nlp_module.py lines 9-11: the lemmas of the nouns and verbs of the text,
\* as spaCy and pymorphy3 give them for these texts.
ExtractKeywords(query_text) ==
    IF query_text = "Kogda ekzamen po matematike?"
    THEN <<w_ekzamen, w_matematika>>
    ELSE <<>>

\* The test dropped.
Truthy_Always(v) == TRUE

\* Python truth value of a str-or-None.
Truthy(v) == v # None /\ v # ""

NoLocals ==
    [query_response |-> None, subject |-> NoSubject, literature |-> <<>>,
     query_id |-> 0, recommendations |-> <<>>]

NoResult == [status |-> 0, body |-> None]

\* A storage call of request r raised: process_input's "except Exception"
\* (app.py lines 46-47) answers 500 with the error's text.
Raise(r, op) ==
    /\ failed' = [failed EXCEPT ![r] = @ \cup {op}]
    /\ result' = [result EXCEPT ![r] = [status |-> 500, body |-> [error |-> op]]]
    /\ pc' = [pc EXCEPT ![r] = "done"]

\* app.py lines 13-18.
Receive(r) ==
    /\ pc[r] = "idle"
    /\ \E user_id \in UserIds, input_text \in InputTexts :
          /\ req' = [req EXCEPT ![r] = [user_id |-> user_id, input_text |-> input_text]]
          /\ IF user_id = 0 \/ ~Truthy(input_text)
             THEN /\ result' = [result EXCEPT ![r] =
                        [status |-> 400, body |-> [error |-> "missing user_id or input_text"]]]
                  /\ pc' = [pc EXCEPT ![r] = "done"]
             ELSE /\ pc' = [pc EXCEPT ![r] = "process_query"]
                  /\ UNCHANGED result
    /\ UNCHANGED <<Users, users_id_seq, Queries, Responses, Recommendations,
                   Literature, tx, loc, nlpConn, appConn, failed, keywords, out, calls>>

\* app.py line 22: process_query(input_text).  It only reads table
\* Literature, which nothing writes, so its steps need no interleaving.
CallProcessQuery(r) ==
    /\ pc[r] = "process_query"
    /\ \E fault \in NlpFaults :
          LET res == ProcessQuery(ExtractKeywords(req[r].input_text), Literature, fault)
          IN  /\ loc' = [loc EXCEPT ![r].query_response = res.response,
                                    ![r].subject = res.subject,
                                    ![r].literature = res.literature]
              /\ nlpConn' = [nlpConn EXCEPT ![r] = res.conn]
              /\ failed' = [failed EXCEPT ![r] =
                               IF res.raised THEN @ \cup {"search_literature"} ELSE @]
    /\ pc' = [pc EXCEPT ![r] = "connect"]
    /\ UNCHANGED <<Users, users_id_seq, Queries, Responses, Recommendations,
                   Literature, tx, req, appConn, result, keywords, out, calls>>

\* app.py line 25: get_db_connection() (database.py lines 11-33).
Connect(r) ==
    /\ pc[r] = "connect"
    /\ \/ /\ appConn' = [appConn EXCEPT ![r] = "open"]
          /\ pc' = [pc EXCEPT ![r] = "ensure_select"]
          /\ UNCHANGED <<failed, result>>
       \/ /\ Raise(r, "connect")
          /\ UNCHANGED appConn
    /\ UNCHANGED <<Users, users_id_seq, Queries, Responses, Recommendations,
                   Literature, tx, req, loc, nlpConn, keywords, out, calls>>

\* database.py lines 55-58: rollback, log, re-raise.
EnsureRaise(r, error) ==
    /\ tx' = [tx EXCEPT ![r] = {}]
    /\ Raise(r, error)

\* database.py lines 38-39 and 53-54.
EnsureSelect(r) ==
    /\ pc[r] = "ensure_select"
    /\ \/ /\ pc' = [pc EXCEPT ![r] =
                       IF UserFound(Users, tx[r], req[r].user_id)
                       THEN "insert_query" ELSE "ensure_insert"]
          /\ UNCHANGED <<tx, failed, result>>
       \/ EnsureRaise(r, "ensure_user_exists: storage error")
    /\ UNCHANGED <<Users, users_id_seq, Queries, Responses, Recommendations,
                   Literature, req, loc, nlpConn, appConn, keywords, out, calls>>

\* database.py lines 40-43.  The INSERT waits while another connection holds
\* an uncommitted row with the same id, and violates the unique id when a
\* committed one exists.
EnsureInsert(r) ==
    /\ pc[r] = "ensure_insert"
    /\ \A o \in Requests \ {r} : \A row \in tx[o] : row.id # req[r].user_id
    /\ \/ /\ ~UniqueViolation(Users, req[r].user_id)
          /\ tx' = [tx EXCEPT ![r] = @ \cup {NewUserRow(req[r].user_id)}]
          /\ pc' = [pc EXCEPT ![r] = "ensure_setval"]
          /\ UNCHANGED <<failed, result>>
       \/ /\ UniqueViolation(Users, req[r].user_id)
          /\ EnsureRaise(r, "ensure_user_exists: duplicate key")
       \/ EnsureRaise(r, "ensure_user_exists: storage error")
    /\ UNCHANGED <<Users, users_id_seq, Queries, Responses, Recommendations,
                   Literature, req, loc, nlpConn, appConn, keywords, out, calls>>

\* database.py lines 44-50: setval is not undone by a rollback.
EnsureSetval(r) ==
    /\ pc[r] = "ensure_setval"
    /\ \/ /\ users_id_seq' = MaxUserId(Users \cup tx[r])
          /\ pc' = [pc EXCEPT ![r] = "ensure_commit"]
          /\ UNCHANGED <<tx, failed, result>>
       \/ /\ EnsureRaise(r, "ensure_user_exists: storage error")
          /\ UNCHANGED users_id_seq
    /\ UNCHANGED <<Users, Queries, Responses, Recommendations,
                   Literature, req, loc, nlpConn, appConn, keywords, out, calls>>

\* database.py line 51.
EnsureCommit(r) ==
    /\ pc[r] = "ensure_commit"
    /\ \/ /\ Users' = Users \cup tx[r]
          /\ tx' = [tx EXCEPT ![r] = {}]
          /\ pc' = [pc EXCEPT ![r] = "insert_query"]
          /\ UNCHANGED <<failed, result>>
       \/ /\ EnsureRaise(r, "ensure_user_exists: storage error")
          /\ UNCHANGED Users
    /\ UNCHANGED <<users_id_seq, Queries, Responses, Recommendations,
                   Literature, req, loc, nlpConn, appConn, keywords, out, calls>>

\* app.py lines 27-28, database.py lines 62-75.
InsertQuery(r) ==
    /\ pc[r] = "insert_query"
    /\ \/ LET row == NewQueryRow(Queries, req[r].user_id, req[r].input_text)
          IN  /\ Queries' = Queries \cup {row}
              /\ loc' = [loc EXCEPT ![r].query_id = row.id]
              /\ pc' = [pc EXCEPT ![r] =
                           IF Truthy(loc[r].query_response)
                           THEN "insert_response" ELSE "fetch"]
              /\ UNCHANGED <<failed, result>>
       \/ /\ Raise(r, "insert_query")
          /\ UNCHANGED <<Queries, loc>>
    /\ UNCHANGED <<Users, users_id_seq, Responses, Recommendations,
                   Literature, tx, req, nlpConn, appConn, keywords, out, calls>>

\* app.py line 29, database.py lines 77-88.
InsertResponse(r) ==
    /\ pc[r] = "insert_response"
    /\ \/ /\ Responses' = Responses \cup
                 {NewResponseRow(loc[r].query_id, loc[r].query_response)}
          /\ pc' = [pc EXCEPT ![r] = "fetch"]
          /\ UNCHANGED <<failed, result>>
       \/ /\ Raise(r, "insert_response")
          /\ UNCHANGED Responses
    /\ UNCHANGED <<Users, users_id_seq, Queries, Recommendations,
                   Literature, tx, req, loc, nlpConn, appConn, keywords, out, calls>>

\* app.py lines 31-45: fetch the recommendations, close the connection and
\* answer.
Respond(r) ==
    /\ pc[r] = "fetch"
    /\ \/ LET rows == FetchRecommendations(Recommendations, req[r].user_id)
          IN  /\ loc' = [loc EXCEPT ![r].recommendations = rows]
              /\ appConn' = [appConn EXCEPT ![r] = "closed"]
              /\ result' = [result EXCEPT ![r] =
                     [status |-> 200,
                      body |-> [query_response |-> loc[r].query_response,
                                recommendations |-> rows,
                                literature |-> loc[r].literature]]]
              /\ pc' = [pc EXCEPT ![r] = "done"]
              /\ UNCHANGED failed
       \/ /\ Raise(r, "fetch_recommendations")
          /\ UNCHANGED <<loc, appConn>>
    /\ UNCHANGED <<Users, users_id_seq, Queries, Responses, Recommendations,
                   Literature, tx, req, nlpConn, keywords, out, calls>>

\* No statement of the code closes a connection that was left open by an
\* error path; the interpreter's garbage collector may finalize it at some
\* point once nothing refers to it any more.
Finalize(r) ==
    /\ pc[r] = "done"
    /\ \/ /\ nlpConn[r] = "open"
          /\ nlpConn' = [nlpConn EXCEPT ![r] = "closed"]
          /\ UNCHANGED appConn
       \/ /\ appConn[r] = "open"
          /\ appConn' = [appConn EXCEPT ![r] = "closed"]
          /\ UNCHANGED nlpConn
    /\ UNCHANGED <<Users, users_id_seq, Queries, Responses, Recommendations,
                   Literature, tx, pc, req, loc, failed, result, keywords, out, calls>>

HandlersIdle ==
    /\ tx = [r \in Requests |-> {}]
    /\ pc = [r \in Requests |-> "idle"]
    /\ req = [r \in Requests |-> [user_id |-> 0, input_text |-> ""]]
    /\ loc = [r \in Requests |-> NoLocals]
    /\ nlpConn = [r \in Requests |-> "none"]
    /\ appConn = [r \in Requests |-> "none"]
    /\ failed = [r \in Requests |-> {}]
    /\ result = [r \in Requests |-> NoResult]

Init ==
    /\ Users \in {{}, {NewUserRow(1)}}
    /\ users_id_seq = IF Users = {} THEN 1 ELSE MaxUserId(Users)
    /\ Queries = {}
    /\ Responses = {}
    /\ Recommendations \in RecommendationTables
    /\ Literature = <<LitRow3, LitRow4>>
    /\ HandlersIdle
    /\ keywords = <<>>
    /\ out = <<>>
    /\ calls = <<>>

Next ==
    \E r \in Requests :
        \/ Receive(r)
        \/ CallProcessQuery(r)
        \/ Connect(r)
        \/ EnsureSelect(r)
        \/ EnsureInsert(r)
        \/ EnsureSetval(r)
        \/ EnsureCommit(r)
        \/ InsertQuery(r)
        \/ InsertResponse(r)
        \/ Respond(r)
        \/ Finalize(r)

Spec == Init /\ [][Next]_vars

-----------------------------------------------------------------------------
(* process_query called directly on a keyword list.                        *)

InitNlp ==
    /\ Users = {}
    /\ users_id_seq = 1
    /\ Queries = {}
    /\ Responses = {}
    /\ Recommendations = {}
    /\ Literature \in LiteratureTables
    /\ HandlersIdle
    /\ keywords \in KeywordLists
    /\ out = <<>>
    /\ calls = <<>>

RunProcessQuery ==
    /\ out = <<>>
    /\ \E fault \in NlpFaults :
          out' = <<ProcessQuery(keywords, Literature, fault)>>
    /\ UNCHANGED <<Users, users_id_seq, Queries, Responses, Recommendations,
                   Literature, tx, pc, req, loc, nlpConn, appConn, failed,
                   result, keywords, calls>>

NextNlp == RunProcessQuery

SpecNlp == InitNlp /\ [][NextNlp]_vars

-----------------------------------------------------------------------------
(* ensure_user_exists called repeatedly on one connection.                 *)

MaxCalls == 3

InitEnsure ==
    /\ Users \in SUBSET OldUserRows
    /\ users_id_seq = IF Users = {} THEN 1 ELSE MaxUserId(Users)
    /\ Queries = {}
    /\ Responses = {}
    /\ Recommendations = {}
    /\ Literature = <<>>
    /\ HandlersIdle
    /\ keywords = <<>>
    /\ out = <<>>
    /\ calls = <<>>

CallEnsureUserExists ==
    /\ Len(calls) < MaxCalls
    /\ \E user_id \in UserIds \ {0} :
          LET res == EnsureUserExists(Users, users_id_seq, user_id)
          IN  /\ Users' = res.Users
              /\ users_id_seq' = res.users_id_seq
              /\ calls' = Append(calls, [user_id |-> user_id, before |-> Users,
                                         after |-> res.Users, raised |-> res.raised])
    /\ UNCHANGED <<Queries, Responses, Recommendations, Literature, tx, pc,
                   req, loc, nlpConn, appConn, failed, result, keywords, out>>

NextEnsure == CallEnsureUserExists

SpecEnsure == InitEnsure /\ [][NextEnsure]_vars

-----------------------------------------------------------------------------
(* Properties.                                                             *)

Done(r) == pc[r] = "done"

Answered200(r) == Done(r) /\ result[r].status = 200

\* k occurs in text, case ignored.
ContainsIgnoringCase(text, k) ==
    \E i \in 1..(Len(text) - Len(k) + 1) :
        \A j \in 1..Len(k) : LowerChar(text[i + j - 1]) = LowerChar(k[j])

IsRecommendationKey(w) ==
    \E j \in 1..Len(recommendations) : recommendations[j][1] = w

IsNoRecommendationKey(w) == ~IsRecommendationKey(w)

\* C1: a request never ends with a successful answer after a storage
\* operation it attempted has failed: every failure of connecting, of the
\* literature search, of ensure_user_exists, insert_query or insert_response
\* ends the request with an error answer.
C1_StorageFailureAborts ==
    \A r \in Requests :
        (Done(r) /\ failed[r] # {}) => result[r].status = 500

\* C2: a request that passed validation and met no storage failure has
\* inserted exactly one Queries row, with status 'processed', and a Responses
\* row for that query id exactly when process_query returned a recommendation.
C2_OneQueryRowAndResponseIffRecommendation ==
    /\ \A r \in Requests :
          (Answered200(r) /\ failed[r] = {}) =>
              LET mine == {q \in Queries : q.id = loc[r].query_id}
                  answers == {a \in Responses : a.query_id = loc[r].query_id}
              IN  /\ mine = {[id |-> loc[r].query_id, user_id |-> req[r].user_id,
                              query_text |-> req[r].input_text, status |-> "processed"]}
                  /\ \A o \in Requests \ {r} : loc[o].query_id # loc[r].query_id
                  /\ IF loc[r].query_response # None
                     THEN answers = {[query_id |-> loc[r].query_id,
                                      response_text |-> loc[r].query_response]}
                     ELSE answers = {}
    /\ Cardinality(Queries) = Cardinality({r \in Requests : loc[r].query_id # 0})

C2_Witness ==
    \E r, o \in Requests :
        /\ Answered200(r) /\ failed[r] = {} /\ loc[r].query_response # None
        /\ Answered200(o) /\ failed[o] = {} /\ loc[o].query_response = None
        /\ Cardinality(Queries) = 2
        /\ Cardinality(Responses) = 1

\* C3: once a request has inserted its Responses row, the list of recent
\* items it fetches for its user starts with the response text just inserted.
C3_FetchedListStartsWithResponse ==
    \A r \in Requests :
        (Answered200(r) /\ loc[r].query_response # None) =>
            /\ loc[r].recommendations # <<>>
            /\ loc[r].recommendations[1].recommendation_text = loc[r].query_response

\* C4: in a sequence of ensure_user_exists calls on one connection, every
\* call leaves exactly one Users row with its id and every other row as it
\* was, and a call repeating an earlier id does not raise and inserts nothing.
C4_EnsureUserIdempotent ==
    \A j \in 1..Len(calls) :
        LET c == calls[j]
        IN  /\ Cardinality({row \in c.after : row.id = c.user_id}) = 1
            /\ {row \in c.after : row.id # c.user_id}
                   = {row \in c.before : row.id # c.user_id}
            /\ \A row \in c.before : row.id = c.user_id => row \in c.after
            /\ (\E i \in 1..(j - 1) : calls[i].user_id = c.user_id) =>
                   (~c.raised /\ c.after = c.before)
            /\ (j = Len(calls)) => Users = c.after

C4_Witness ==
    /\ Len(calls) = 3
    /\ calls[1].user_id = 2 /\ calls[2].user_id = 2 /\ calls[3].user_id = 2
    /\ calls[1].before = {NewUserRow(1)}
    /\ Users = {NewUserRow(1), NewUserRow(2)}

\* C5: the recommendation is the text of the first key, in the order of the
\* table, that is among the keywords, whatever their positions and
\* multiplicities; with "ekzamen" among them it is the exam text; with no
\* key among them it is None.
C5_TableOrderPrecedence ==
    Len(out) = 1 =>
        LET hits == {j \in 1..Len(recommendations) :
                        recommendations[j][1] \in Range(keywords)}
        IN  /\ IF hits = {} THEN out[1].response = None
               ELSE out[1].response =
                        recommendations[CHOOSE j \in hits : \A h \in hits : j <= h][2]
            /\ w_ekzamen \in Range(keywords) =>
                   out[1].response = recommendations[1][2]
            /\ recommendations[1][1] = w_ekzamen
            /\ \A other \in KeywordLists :
                   Range(other) = Range(keywords) =>
                       MatchRecommendation(other) = out[1].response

C5_Witness ==
    /\ Len(out) = 1
    /\ keywords = <<w_raspisanie, w_ekzamen, w_raspisanie>>
    /\ out[1].response = recommendations[1][2]

\* C6: the subject is the capitalized keyword at the smallest position that
\* is in the vocabulary; there is no subject exactly when no keyword is in
\* the vocabulary; recommendation keywords among the keywords do not change it.
C6_FirstVocabularyKeywordWins ==
    Len(out) = 1 =>
        LET found == {i \in 1..Len(keywords) :
                         \E v \in 1..Len(subjects) : subjects[v] = keywords[i]}
            subject == out[1].subject
        IN  /\ (found = {}) <=> (subject = NoSubject)
            /\ found # {} =>
                   LET k == keywords[CHOOSE i \in found : \A j \in found : i <= j]
                   IN  /\ Len(subject) = Len(k)
                       /\ subject[1] \in Range(UpperLetters)
                       /\ LowerChar(subject[1]) = k[1]
                       /\ \A i \in 2..Len(k) : subject[i] = k[i]
            /\ ClassifySubject(SelectSeq(keywords, IsNoRecommendationKey)) = subject

C6_Witness ==
    /\ Len(out) = 1
    /\ keywords = <<w_ekzamen, w_algebra, w_matematika>>
    /\ out[1].subject = W_Algebra

\* C7: with no keyword and no subject process_query opens no connection,
\* executes no statement and returns no literature; it opens a connection
\* only when there is a keyword or a subject.
C7_NoLookupWithoutKeywords ==
    Len(out) = 1 =>
        /\ (keywords = <<>> /\ out[1].subject = NoSubject) =>
               /\ out[1].literature = <<>>
               /\ out[1].conn = "none"
               /\ ~out[1].executed
               /\ ~out[1].raised
        /\ (out[1].conn # "none" \/ out[1].executed \/ out[1].raised) =>
               (keywords # <<>> \/ out[1].subject # NoSubject)

C7_Witness ==
    /\ Len(out) = 1
    /\ keywords = <<>>
    /\ Len(Literature) = 5
    /\ out[1].conn = "none"
    /\ out[1].literature = <<>>

\* C8: the statement process_query executes filters on the configured
\* faculty and on a non-empty disjunction: one "keywords contains k" per
\* keyword, then one "subject contains s" per related subject of the subject
\* when the subject is a key of the mapping (for Algebra: linear algebra and
\* algebra); the records returned are those of the faculty that satisfy one
\* of these conditions.
C8_LiteratureFilter ==
    (Len(out) = 1 /\ out[1].executed) =>
        LET query == out[1].query
            n == Len(keywords)
            keys == {i \in 1..Len(subject_mapping) :
                        subject_mapping[i][1] = out[1].subject}
            related == IF keys = {} THEN <<>>
                       ELSE subject_mapping[CHOOSE i \in keys : TRUE][2]
            expected == {row.id : row \in
                            {row \in Range(Literature) :
                                /\ row.faculty = FACULTY
                                /\ \/ \E i \in 1..n :
                                          ContainsIgnoringCase(row.keywords, keywords[i])
                                   \/ \E j \in 1..Len(related) :
                                          ContainsIgnoringCase(row.subject, related[j])}}
        IN  /\ query.params[1] = FACULTY
            /\ Len(query.conditions) >= 1
            /\ Len(query.conditions) = n + Len(related)
            /\ Len(query.params) = 1 + n + Len(related)
            /\ \A i \in 1..n :
                   /\ query.conditions[i] = "keywords"
                   /\ query.params[1 + i] = <<"%">> \o keywords[i] \o <<"%">>
            /\ \A j \in 1..Len(related) :
                   /\ query.conditions[n + j] = "subject"
                   /\ query.params[1 + n + j] = <<"%">> \o related[j] \o <<"%">>
            /\ out[1].subject = W_Algebra =>
                   related = <<W_LinejnayaAlgebra, W_Algebra>>
            /\ ~out[1].raised =>
                   /\ {rec.id : rec \in Range(out[1].literature)} = expected
                   /\ \A rec \in Range(out[1].literature) : rec.faculty = FACULTY

C8_Witness ==
    /\ Len(out) = 1
    /\ out[1].executed /\ ~out[1].raised
    /\ keywords = <<w_zadanie, w_algebra>>
    /\ out[1].subject = W_Algebra
    /\ Len(Literature) = 5
    /\ {rec.id : rec \in Range(out[1].literature)} = {1}

\* C9: two concurrent requests with the same unseen user_id: neither
\* ensure_user_exists call fails on the other's row, and exactly one Users
\* row with that id exists once both calls are over.
C9_ConcurrentEnsureNeverFails ==
    \A r, o \in Requests :
        (r # o /\ req[r].user_id = req[o].user_id /\ req[r].user_id # 0) =>
            /\ "ensure_user_exists: duplicate key" \notin failed[r]
            /\ (Answered200(r) /\ Answered200(o)) =>
                   Cardinality({row \in Users : row.id = req[r].user_id}) = 1

\* C10: when a request has returned, the connection process_query opened and
\* the connection process_input opened are both closed.
C10_ConnectionsClosedAtReturn ==
    \A r \in Requests :
        Done(r) => (nlpConn[r] # "open" /\ appConn[r] # "open")
=============================================================================
